---- MODULE Spec2Model ----
\* Verification model of modmesh: the unstructured-mesh table store
\* (include/modmesh/mesh.hpp) and the dtype-erased array handle exposed by
\* cpp/modmesh/buffer/pymod/wrap_SimpleArrayPlex.cpp.
EXTENDS Integers, Sequences, FiniteSets, TLC

VARIABLES
    mesh,       \* the StaticMesh object, or NoMesh before construction
    meshArgs,   \* the arguments the mesh constructor was called with
    meshWrites, \* number of element writes made through the table accessors
    plex,       \* the SimpleArrayPlex handed to the caller, if any
    ctor,       \* the constructor call that was made and its arguments
    err,        \* the exception the last call raised, "none" if it returned
    fills,      \* number of fill() calls the constructor call executed
    buffers,    \* the ConcreteBuffer objects, by id
    typedArrs,  \* the arrays returned by the typed property, oldest first
    handles,    \* number of live extra holders of the plex's buffer
    released,   \* number of times the ndarray remover has run
    shape_in,   \* the object given to make_shape
    shape_out,  \* what make_shape returned for it, or NotParsed
    cell,       \* the CellType object, or NoCell before construction
    cellArgs,   \* the class and constructor arguments the cell type was built with
    cellRet     \* the member function last called on it and what it returned

meshVars == <<mesh, meshArgs, meshWrites>>
plexVars == <<plex, ctor, err, fills, buffers, typedArrs, handles, released>>
shapeVars == <<shape_in, shape_out>>
cellVars == <<cell, cellArgs, cellRet>>

vars == <<mesh, meshArgs, meshWrites, plex, ctor, err, fills, buffers,
          typedArrs, handles, released, shape_in, shape_out,
          cell, cellArgs, cellRet>>

----------------------------------------------------------------------------
\* Bounds of the mesh model.
MaxNode == 4
MaxFace == 5
MaxCell == 2
MaxBound == 3
MaxMeshWrites == 1

\* Value written through a table accessor.
MeshVals == {1}

----------------------------------------------------------------------------
\* CellTypeBase: the global maxima that fix the width of connectivity rows.
FCNND_MAX == 4
FCNCL_MAX == 2
CLNND_MAX == 8
CLNFC_MAX == 6

\* StaticMeshBase's aliases of the maxima.
FCMND == FCNND_MAX
FCMCL == FCNCL_MAX
CLMND == CLNND_MAX
CLMFC == CLNFC_MAX

NoMesh == [constructed |-> FALSE]

TableNames ==
    {"ndcrd", "fccnd", "fcnml", "fcara", "clcnd", "clvol",
     "fctpn", "cltpn", "clgrp", "fcnds", "fccls", "clnds", "clfcs"}

RECURSIVE Product(_)
Product(s) == IF s = <<>> THEN 1 ELSE Head(s) * Product(Tail(s))

\* SimpleArray<T>(shape): an array of the given shape; no element is
\* initialised, so body holds only the elements written so far.
SimpleArray(shape) == [shape |-> shape, body |-> <<>>]

\* Faulty variant of the constructor: clfcs rows as wide as clnds rows.
StaticMeshBase_clfcs_wide(NDIM, nnode, nface, ncell, nbound) ==
    [constructed |-> TRUE, NDIM |-> NDIM,
     m_nnode |-> nnode, m_nface |-> nface, m_ncell |-> ncell, m_nbound |-> nbound,
     m_ngstnode |-> 0, m_ngstface |-> 0, m_ngstcell |-> 0,
     arrays |->
        [n \in TableNames |->
            CASE n = "ndcrd" -> SimpleArray(<<nnode, NDIM>>)
              [] n = "fccnd" -> SimpleArray(<<nface, NDIM>>)
              [] n = "fcnml" -> SimpleArray(<<nface, NDIM>>)
              [] n = "fcara" -> SimpleArray(<<nface>>)
              [] n = "clcnd" -> SimpleArray(<<ncell, NDIM>>)
              [] n = "clvol" -> SimpleArray(<<ncell>>)
              [] n = "fctpn" -> SimpleArray(<<ncell>>)
              [] n = "cltpn" -> SimpleArray(<<ncell>>)
              [] n = "clgrp" -> SimpleArray(<<ncell>>)
              [] n = "fcnds" -> SimpleArray(<<nface, FCMND>>)
              [] n = "fccls" -> SimpleArray(<<nface, FCMCL>>)
              [] n = "clnds" -> SimpleArray(<<ncell, CLMND>>)
              [] n = "clfcs" -> SimpleArray(<<ncell, CLMND>>)]]

\* Faulty variant of the constructor: the ghost-cell count starts at the cell count.
StaticMeshBase_ghost(NDIM, nnode, nface, ncell, nbound) ==
    [constructed |-> TRUE, NDIM |-> NDIM,
     m_nnode |-> nnode, m_nface |-> nface, m_ncell |-> ncell, m_nbound |-> nbound,
     m_ngstnode |-> 0, m_ngstface |-> 0, m_ngstcell |-> ncell,
     arrays |->
        [n \in TableNames |->
            CASE n = "ndcrd" -> SimpleArray(<<nnode, NDIM>>)
              [] n = "fccnd" -> SimpleArray(<<nface, NDIM>>)
              [] n = "fcnml" -> SimpleArray(<<nface, NDIM>>)
              [] n = "fcara" -> SimpleArray(<<nface>>)
              [] n = "clcnd" -> SimpleArray(<<ncell, NDIM>>)
              [] n = "clvol" -> SimpleArray(<<ncell>>)
              [] n = "fctpn" -> SimpleArray(<<ncell>>)
              [] n = "cltpn" -> SimpleArray(<<ncell>>)
              [] n = "clgrp" -> SimpleArray(<<ncell>>)
              [] n = "fcnds" -> SimpleArray(<<nface, FCMND>>)
              [] n = "fccls" -> SimpleArray(<<nface, FCMCL>>)
              [] n = "clnds" -> SimpleArray(<<ncell, CLMND>>)
              [] n = "clfcs" -> SimpleArray(<<ncell, CLMFC>>)]]

\* StaticMeshBase::StaticMeshBase(nnode, nface, ncell, nbound, passkey) for the
\* space dimension NDIM (2 for StaticMesh2d, 3 for StaticMesh3d): the member
\* initialiser list, table by table.  m_fctpn is built from ncell.
StaticMeshBase(NDIM, nnode, nface, ncell, nbound) ==
    [constructed |-> TRUE, NDIM |-> NDIM,
     m_nnode |-> nnode, m_nface |-> nface, m_ncell |-> ncell, m_nbound |-> nbound,
     m_ngstnode |-> 0, m_ngstface |-> 0, m_ngstcell |-> 0,
     arrays |->
        [n \in TableNames |->
            CASE n = "ndcrd" -> SimpleArray(<<nnode, NDIM>>)
              [] n = "fccnd" -> SimpleArray(<<nface, NDIM>>)
              [] n = "fcnml" -> SimpleArray(<<nface, NDIM>>)
              [] n = "fcara" -> SimpleArray(<<nface>>)
              [] n = "clcnd" -> SimpleArray(<<ncell, NDIM>>)
              [] n = "clvol" -> SimpleArray(<<ncell>>)
              [] n = "fctpn" -> SimpleArray(<<ncell>>)
              [] n = "cltpn" -> SimpleArray(<<ncell>>)
              [] n = "clgrp" -> SimpleArray(<<ncell>>)
              [] n = "fcnds" -> SimpleArray(<<nface, FCMND>>)
              [] n = "fccls" -> SimpleArray(<<nface, FCMCL>>)
              [] n = "clnds" -> SimpleArray(<<ncell, CLMND>>)
              [] n = "clfcs" -> SimpleArray(<<ncell, CLMFC>>)]]

\* The count queries of StaticMeshBase.
nnode(m) == m.m_nnode
nface(m) == m.m_nface
ncell(m) == m.m_ncell
nbound(m) == m.m_nbound
ngstnode(m) == m.m_ngstnode
ngstface(m) == m.m_ngstface
ngstcell(m) == m.m_ngstcell

\* MM_DECL_StaticMesh_ARRAY: the accessor NAME() returns a reference to the
\* member m_NAME.
MM_DECL_StaticMesh_ARRAY(m, NAME) == m.arrays[NAME]

\* The flat indices a caller writes: the first and the last element.
WriteIndices(arr) ==
    IF Product(arr.shape) = 0 THEN {} ELSE {0, Product(arr.shape) - 1}

MeshWriteInputs(NAME) ==
    IF mesh.constructed
    THEN WriteIndices(MM_DECL_StaticMesh_ARRAY(mesh, NAME))
    ELSE {}

\* StaticMesh2d / StaticMesh3d construct(nnode, nface, ncell, nbound).
construct(NDIM, n_node, n_face, n_cell, n_bound) ==
    /\ ~mesh.constructed
    /\ mesh' = StaticMeshBase(NDIM, n_node, n_face, n_cell, n_bound)
    /\ meshArgs' = [NDIM |-> NDIM, nnode |-> n_node, nface |-> n_face,
                    ncell |-> n_cell, nbound |-> n_bound]
    /\ UNCHANGED <<meshWrites, plexVars, shapeVars, cellVars>>

\* An element write through the non-const accessor NAME(): m.NAME()(i) = v.
WriteTable(NAME, i, v) ==
    /\ mesh.constructed
    /\ meshWrites < MaxMeshWrites
    /\ i \in WriteIndices(MM_DECL_StaticMesh_ARRAY(mesh, NAME))
    /\ mesh' = [mesh EXCEPT !.arrays[NAME].body =
                    [j \in (DOMAIN @) \cup {i} |-> IF j = i THEN v ELSE @[j]]]
    /\ meshWrites' = meshWrites + 1
    /\ UNCHANGED <<meshArgs, plexVars, shapeVars, cellVars>>

----------------------------------------------------------------------------
\* Python objects and fixed-width integers.
\*
\* A Python int is kept as NLimbs limbs of 16 bits, least significant first,
\* in two's complement, so that the 32- and 64-bit ranges are exact.
NLimbs == 5
LimbBase == 2^16
LimbMax == LimbBase - 1
NBits == 16 * NLimbs

Small(n) == [i \in 1..NLimbs |-> IF i = 1 THEN n ELSE 0]
Pow2(k) == [i \in 1..NLimbs |-> IF i - 1 = k \div 16 THEN 2^(k % 16) ELSE 0]
Pow2m1(k) ==
    [i \in 1..NLimbs |->
        IF i - 1 < k \div 16 THEN LimbMax
        ELSE IF i - 1 = k \div 16 THEN 2^(k % 16) - 1 ELSE 0]
\* -(x + 1), the bitwise complement of x.
Compl(x) == [i \in 1..NLimbs |-> LimbMax - x[i]]

Bit(v, k) == (v[(k \div 16) + 1] \div 2^(k % 16)) % 2

\* The value lies in [-2^(w-1), 2^(w-1) - 1], resp. in [0, 2^w - 1].
FitsSigned(v, w) == \A k \in (w - 1)..(NBits - 1) : Bit(v, k) = Bit(v, w - 1)
FitsUnsigned(v, w) == \A k \in w..(NBits - 1) : Bit(v, k) = 0

\* The low w bits of the value: what a w-bit integer object stores.
LowBits(v, w) == IF w < 16 THEN <<v[1] % 2^w>> ELSE SubSeq(v, 1, w \div 16)

PyBool(b) == [kind |-> "bool", v |-> Small(IF b THEN 1 ELSE 0)]
PyInt(limbs) == [kind |-> "int", v |-> limbs]
\* A Python float, in halves (5 is 2.5): exactly representable in both widths.
PyFloat(halves) == [kind |-> "float", v |-> Small(halves)]
PyStr == [kind |-> "str", v |-> Small(0)]

IntVals ==
    {Small(0), Small(1), Small(44), Small(127), Small(128), Small(255),
     Small(256), Small(300), Compl(Small(0)), Compl(Small(127)),
     Compl(Small(128)), Compl(Small(299))}
    \cup {Pow2(k) : k \in {15, 16, 31, 32, 63, 64}}
    \cup {Pow2m1(k) : k \in {15, 16, 31, 32, 63, 64}}
    \cup {Compl(Pow2m1(k)) : k \in {15, 31, 63}}
    \cup {Compl(Pow2(k)) : k \in {15, 31, 63}}

PyVals ==
    {PyBool(TRUE), PyBool(FALSE), PyFloat(5), PyFloat(0), PyStr}
    \cup {PyInt(v) : v \in IntVals}

\* pybind11::isinstance<bool_/int_/float_>: PyBool_Check, PyLong_Check and
\* PyFloat_Check.  The host's bool is a subclass of its int.
isinstance_bool(value) == value.kind = "bool"
isinstance_int(value) == value.kind \in {"int", "bool"}
\* Faulty variant: a float check that lets an int through.
isinstance_float_lax(value) == value.kind \in {"float", "int"}
isinstance_float(value) == value.kind = "float"

----------------------------------------------------------------------------
\* DataType and the concrete array types.
DataTypes ==
    {"Bool", "Int8", "Int16", "Int32", "Int64", "Uint8", "Uint16", "Uint32",
     "Uint64", "Float32", "Float64"}

\* The dtype names a constructor accepts.
DataTypeFromString(name) ==
    CASE name = "bool" -> "Bool"
      [] name = "int8" -> "Int8"
      [] name = "int16" -> "Int16"
      [] name = "int32" -> "Int32"
      [] name = "int64" -> "Int64"
      [] name = "uint8" -> "Uint8"
      [] name = "uint16" -> "Uint16"
      [] name = "uint32" -> "Uint32"
      [] name = "uint64" -> "Uint64"
      [] name = "float32" -> "Float32"
      [] name = "float64" -> "Float64"
      [] OTHER -> "Undefined"

\* Width in bits of an element of the array type of a DataType.
Width(dt) ==
    CASE dt \in {"Bool", "Int8", "Uint8"} -> 8
      [] dt \in {"Int16", "Uint16"} -> 16
      [] dt \in {"Int32", "Uint32", "Float32"} -> 32
      [] dt \in {"Int64", "Uint64", "Float64"} -> 64

\* Size in bytes of an element, by dtype name.
ItemSize(name) ==
    IF DataTypeFromString(name) = "Undefined" THEN 16
    ELSE Width(DataTypeFromString(name)) \div 8

\* An element of an array: k is its state, b the stored bits.
Uninit == [k |-> "uninit", b |-> <<>>]
Elem(bits) == [k |-> "set", b |-> bits]

----------------------------------------------------------------------------
\* make_shape.
ShapeInt(n) == [kind |-> "int", n |-> n, items |-> <<>>]
ShapeSeq(items) == [kind |-> "seq", n |-> 0, items |-> items]

CastError == [ok |-> FALSE, shape |-> <<>>]

\* shape_in.cast<size_t>(): an int that is not negative.
cast_size_t(obj) ==
    IF obj.kind = "int" /\ obj.n >= 0
    THEN [ok |-> TRUE, val |-> obj.n]
    ELSE [ok |-> FALSE, val |-> 0]

\* shape_in.cast<std::vector<size_t>>(): a sequence whose items all cast.
cast_vector_size_t(obj) ==
    IF obj.kind = "seq" /\ \A i \in DOMAIN obj.items : obj.items[i] >= 0
    THEN [ok |-> TRUE, shape |-> obj.items]
    ELSE CastError

\* Faulty variant: the fallback keeps only the first dimension of a sequence.
make_shape_first(obj) ==
    IF cast_size_t(obj).ok
    THEN [ok |-> TRUE, shape |-> <<cast_size_t(obj).val>>]
    ELSE IF cast_vector_size_t(obj).ok /\ Len(obj.items) > 1
         THEN [ok |-> TRUE, shape |-> <<obj.items[1]>>]
         ELSE cast_vector_size_t(obj)

\* make_shape: the scalar cast first; on cast_error the sequence cast, whose
\* own cast_error leaves the function.
make_shape(obj) ==
    IF cast_size_t(obj).ok
    THEN [ok |-> TRUE, shape |-> <<cast_size_t(obj).val>>]
    ELSE cast_vector_size_t(obj)

----------------------------------------------------------------------------
\* SimpleArrayPlex and its Python wrapper.
MaxTyped == 2
MaxHandles == 1

NoPlex == [state |-> "none"]
DestroyedPlex == [state |-> "destroyed"]
NoCtor == [kind |-> "none", shape_in |-> ShapeInt(0), value |-> PyStr, datatype |-> ""]
NoBits == <<>>

\* A ConcreteBuffer that owns its memory, with one holder.
OwnBuffer(data, nbytes) ==
    [data |-> data, nbytes |-> nbytes, holders |-> 1, remover |-> FALSE,
     mem |-> "own", alive |-> TRUE]

\* SimpleArrayPlex(shape, datatype): the tag of the dtype name and an array of
\* that element type, its elements not initialised.
SimpleArrayPlex(shape, datatype) ==
    [ok |-> DataTypeFromString(datatype) # "Undefined",
     m_data_type |-> DataTypeFromString(datatype),
     shape |-> shape,
     nbytes |-> Product(shape) * ItemSize(datatype),
     data |-> [i \in 1..Product(shape) |-> Uninit]]

\* Faulty variant: a cast that narrows without a range check.
cast_int_unchecked(value, signed, w) == [ok |-> TRUE, v |-> value.v]

\* value.cast<T>() for an integer T of w bits: the value itself when T can
\* hold it, cast_error otherwise.
cast_int(value, signed, w) ==
    [ok |-> IF signed THEN FitsSigned(value.v, w) ELSE FitsUnsigned(value.v, w),
     v |-> value.v]

Mismatch == [err |-> "Data type mismatch", fills |-> 0, bits |-> NoBits]
Filled(bits) == [err |-> "none", fills |-> 1, bits |-> bits]

\* One integer case of the switch: the isinstance check, the cast to the C
\* type (signed, cw bits), then fill() of an array whose elements have w bits.
IntCase(value, signed, cw, w) ==
    IF ~isinstance_int(value) THEN Mismatch
    ELSE IF ~cast_int(value, signed, cw).ok
         THEN [err |-> "cast_error", fills |-> 0, bits |-> NoBits]
         ELSE Filled(LowBits(cast_int(value, signed, cw).v, w))

\* The switch of init_array_plex_with_value on array_plex.data_type().
FillSwitch(dt, value) ==
    CASE dt = "Bool" ->
            IF ~isinstance_bool(value) THEN Mismatch
            ELSE Filled(LowBits(value.v, 8))
      [] dt = "Int8" -> IntCase(value, TRUE, 8, 8)
      [] dt = "Int16" -> IntCase(value, TRUE, 16, 16)
      [] dt = "Int32" -> IntCase(value, TRUE, 32, 32)
      [] dt = "Int64" -> IntCase(value, TRUE, 64, 64)
      [] dt = "Uint8" -> IntCase(value, FALSE, 8, 8)
      [] dt = "Uint16" -> IntCase(value, FALSE, 16, 16)
      [] dt = "Uint32" -> IntCase(value, TRUE, 32, 32)
      [] dt = "Uint64" -> IntCase(value, TRUE, 64, 64)
      [] dt = "Float32" ->
            IF ~isinstance_float(value) THEN Mismatch
            ELSE Filled(<<value.v[1]>>)
      [] dt = "Float64" ->
            IF ~isinstance_float(value) THEN Mismatch
            ELSE Filled(<<value.v[1]>>)
      [] OTHER -> [err |-> "Unsupported datatype", fills |-> 0, bits |-> NoBits]

LivePlex(dt, shape) ==
    [state |-> "live", m_data_type |-> dt,
     instance |-> [etype |-> dt, shape |-> shape, buf |-> 1]]

\* The (shape, dtype) constructor.
init_array_plex(sh, datatype) ==
    /\ ctor.kind = "none"
    /\ ctor' = [kind |-> "dtype", shape_in |-> sh, value |-> PyStr, datatype |-> datatype]
    /\ fills' = 0
    /\ LET shape == make_shape(sh)
           array_plex == SimpleArrayPlex(shape.shape, datatype)
       IN IF ~shape.ok
          THEN /\ err' = "cast_error"
               /\ UNCHANGED <<plex, buffers>>
          ELSE IF ~array_plex.ok
          THEN /\ err' = "Unsupported datatype"
               /\ UNCHANGED <<plex, buffers>>
          ELSE /\ err' = "none"
               /\ plex' = LivePlex(array_plex.m_data_type, array_plex.shape)
               /\ buffers' = <<OwnBuffer(array_plex.data, array_plex.nbytes)>>
    /\ UNCHANGED <<typedArrs, handles, released, meshVars, shapeVars, cellVars>>

\* init_array_plex_with_value: the (shape, value, dtype) constructor.
init_array_plex_with_value(sh, value, datatype) ==
    /\ ctor.kind = "none"
    /\ ctor' = [kind |-> "value", shape_in |-> sh, value |-> value, datatype |-> datatype]
    /\ LET shape == make_shape(sh)
           array_plex == SimpleArrayPlex(shape.shape, datatype)
           res == FillSwitch(array_plex.m_data_type, value)
       IN IF ~shape.ok
          THEN /\ err' = "cast_error"
               /\ fills' = 0
               /\ UNCHANGED <<plex, buffers>>
          ELSE IF ~array_plex.ok
          THEN /\ err' = "Unsupported datatype"
               /\ fills' = 0
               /\ UNCHANGED <<plex, buffers>>
          ELSE IF res.err # "none"
          THEN /\ err' = res.err
               /\ fills' = res.fills
               /\ UNCHANGED <<plex, buffers>>
          ELSE /\ err' = "none"
               /\ fills' = res.fills
               /\ plex' = LivePlex(array_plex.m_data_type, array_plex.shape)
               /\ buffers' = <<OwnBuffer([i \in 1..Product(array_plex.shape) |-> Elem(res.bits)],
                                         array_plex.nbytes)>>
    /\ UNCHANGED <<typedArrs, handles, released, meshVars, shapeVars, cellVars>>

\* The bits of the number n in an element of the type dt.
ElemOf(dt, n) ==
    IF dt \in {"Float32", "Float64"} THEN <<n>> ELSE LowBits(Small(n), Width(dt))

\* Faulty variant: the buffer is built over the ndarray's memory without the remover.
wrap_ndarray_no_remover(arr_in) ==
    [shape |-> arr_in.shape,
     datatype |-> arr_in.dtype,
     buffer |-> [data |-> arr_in.data, nbytes |-> arr_in.nbytes, holders |-> 1,
                 remover |-> FALSE, mem |-> "ndarray", alive |-> TRUE]]

\* The body of the ndarray constructor: the shape read dimension by dimension,
\* a ConcreteBuffer over the ndarray's own memory that carries a
\* ConcreteBufferNdarrayRemover, and the dtype's name.
wrap_ndarray(arr_in) ==
    [shape |-> arr_in.shape,
     datatype |-> arr_in.dtype,
     buffer |-> [data |-> arr_in.data, nbytes |-> arr_in.nbytes, holders |-> 1,
                 remover |-> TRUE, mem |-> "ndarray", alive |-> TRUE]]

\* A holder of buffer b goes away; the last one takes the buffer, and the
\* memory it owns, with it.
ReleaseHolder(bufs, b) ==
    [bufs EXCEPT ![b].holders = @ - 1,
                 ![b].alive = bufs[b].holders > 1,
                 ![b].data = IF bufs[b].holders > 1 THEN @ ELSE <<>>]
\* The remover is destroyed with the buffer that carries it.
RemoverRuns(bufs, b) == IF bufs[b].holders = 1 /\ bufs[b].remover THEN 1 ELSE 0

\* The ndarray constructor.
init_from_ndarray(arr_in) ==
    /\ ctor.kind = "none"
    /\ ctor' = [kind |-> "wrap", shape_in |-> ShapeSeq(arr_in.shape), value |-> PyStr,
                datatype |-> arr_in.dtype]
    /\ fills' = 0
    /\ LET w == wrap_ndarray(arr_in)
       IN IF DataTypeFromString(w.datatype) = "Undefined"
          THEN /\ err' = "Unsupported datatype"
               /\ buffers' = ReleaseHolder(<<w.buffer>>, 1)
               /\ released' = released + RemoverRuns(<<w.buffer>>, 1)
               /\ UNCHANGED plex
          ELSE /\ err' = "none"
               /\ plex' = LivePlex(DataTypeFromString(w.datatype), w.shape)
               /\ buffers' = <<w.buffer>>
               /\ UNCHANGED released
    /\ UNCHANGED <<typedArrs, handles, meshVars, shapeVars, cellVars>>

\* SimpleArray<T>(SimpleArray<T> const &): the copy has a buffer of its own
\* holding a copy of the elements.
TypedCopy(p, bufs, etype) ==
    [err |-> "none",
     array |-> [etype |-> etype, shape |-> p.instance.shape,
                buf |-> Len(bufs) + 1, alive |-> TRUE],
     bufs |-> Append(bufs, OwnBuffer(bufs[p.instance.buf].data,
                                      bufs[p.instance.buf].nbytes))]

TypedFails(bufs) ==
    [err |-> "Unsupported datatype",
     array |-> [etype |-> "Undefined", shape |-> <<>>, buf |-> 0, alive |-> FALSE],
     bufs |-> bufs]

\* Faulty variant: the Uint32 case casts to the Int32 array type.
get_typed_array_uint32_slip(p, bufs) ==
    CASE p.m_data_type = "Uint32" -> TypedCopy(p, bufs, "Int32")
      [] p.m_data_type \in DataTypes \ {"Uint32"} -> TypedCopy(p, bufs, p.m_data_type)
      [] OTHER -> TypedFails(bufs)

\* Faulty variant: the array is handed out by reference, over the plex's own buffer.
get_typed_array_by_reference(p, bufs) ==
    IF p.m_data_type \in DataTypes
    THEN [err |-> "none",
          array |-> [etype |-> p.m_data_type, shape |-> p.instance.shape,
                     buf |-> p.instance.buf, alive |-> TRUE],
          bufs |-> [bufs EXCEPT ![p.instance.buf].holders = @ + 1]]
    ELSE TypedFails(bufs)

\* get_typed_array: the switch on array_plex.data_type(); each case copies the
\* instance as the array type of its own tag.
get_typed_array(p, bufs) ==
    CASE p.m_data_type = "Bool" -> TypedCopy(p, bufs, "Bool")
      [] p.m_data_type = "Int8" -> TypedCopy(p, bufs, "Int8")
      [] p.m_data_type = "Int16" -> TypedCopy(p, bufs, "Int16")
      [] p.m_data_type = "Int32" -> TypedCopy(p, bufs, "Int32")
      [] p.m_data_type = "Int64" -> TypedCopy(p, bufs, "Int64")
      [] p.m_data_type = "Uint8" -> TypedCopy(p, bufs, "Uint8")
      [] p.m_data_type = "Uint16" -> TypedCopy(p, bufs, "Uint16")
      [] p.m_data_type = "Uint32" -> TypedCopy(p, bufs, "Uint32")
      [] p.m_data_type = "Uint64" -> TypedCopy(p, bufs, "Uint64")
      [] p.m_data_type = "Float32" -> TypedCopy(p, bufs, "Float32")
      [] p.m_data_type = "Float64" -> TypedCopy(p, bufs, "Float64")
      [] OTHER -> TypedFails(bufs)

\* data_type() of the plex.
data_type(p) == p.m_data_type

\* The typed property.
typed ==
    /\ plex.state = "live"
    /\ Len(typedArrs) < MaxTyped
    /\ LET r == get_typed_array(plex, buffers)
       IN /\ err' = r.err
          /\ buffers' = r.bufs
          /\ typedArrs' = IF r.err = "none" THEN Append(typedArrs, r.array) ELSE typedArrs
    /\ UNCHANGED <<plex, ctor, fills, handles, released, meshVars, shapeVars, cellVars>>

TypedIndices(i) ==
    IF i \in DOMAIN typedArrs THEN DOMAIN buffers[typedArrs[i].buf].data ELSE {}

\* An element write to the i-th returned array.
WriteTyped(i, idx, n) ==
    /\ i \in DOMAIN typedArrs
    /\ typedArrs[i].alive
    /\ idx \in DOMAIN buffers[typedArrs[i].buf].data
    /\ buffers' = [buffers EXCEPT ![typedArrs[i].buf].data[idx] =
                        Elem(ElemOf(typedArrs[i].etype, n))]
    /\ UNCHANGED <<plex, ctor, err, fills, typedArrs, handles, released, meshVars, shapeVars, cellVars>>

\* fill(n) on the i-th returned array.
FillTyped(i, n) ==
    /\ i \in DOMAIN typedArrs
    /\ typedArrs[i].alive
    /\ buffers' = [buffers EXCEPT ![typedArrs[i].buf].data =
                        [j \in DOMAIN @ |-> Elem(ElemOf(typedArrs[i].etype, n))]]
    /\ UNCHANGED <<plex, ctor, err, fills, typedArrs, handles, released, meshVars, shapeVars, cellVars>>

\* The i-th returned array is destroyed.
DestroyTyped(i) ==
    /\ i \in DOMAIN typedArrs
    /\ typedArrs[i].alive
    /\ typedArrs' = [typedArrs EXCEPT ![i].alive = FALSE]
    /\ buffers' = ReleaseHolder(buffers, typedArrs[i].buf)
    /\ released' = released + RemoverRuns(buffers, typedArrs[i].buf)
    /\ UNCHANGED <<plex, ctor, err, fills, handles, meshVars, shapeVars, cellVars>>

\* Another holder of the plex's buffer appears.
CopyHandle ==
    /\ plex.state = "live"
    /\ handles < MaxHandles
    /\ handles' = handles + 1
    /\ buffers' = [buffers EXCEPT ![plex.instance.buf].holders = @ + 1]
    /\ UNCHANGED <<plex, ctor, err, fills, typedArrs, released, meshVars, shapeVars, cellVars>>

\* One of the extra holders is destroyed.
DestroyHandle ==
    /\ handles > 0
    /\ handles' = handles - 1
    /\ buffers' = ReleaseHolder(buffers, 1)
    /\ released' = released + RemoverRuns(buffers, 1)
    /\ UNCHANGED <<plex, ctor, err, fills, typedArrs, meshVars, shapeVars, cellVars>>

\* The plex is destroyed.
DestroyPlex ==
    /\ plex.state = "live"
    /\ plex' = DestroyedPlex
    /\ buffers' = ReleaseHolder(buffers, plex.instance.buf)
    /\ released' = released + RemoverRuns(buffers, plex.instance.buf)
    /\ UNCHANGED <<ctor, err, fills, typedArrs, handles, meshVars, shapeVars, cellVars>>

----------------------------------------------------------------------------
\* Inputs.
DtypeNames ==
    {"bool", "int8", "int16", "int32", "int64", "uint8", "uint16", "uint32",
     "uint64", "float32", "float64"}

PlexShapeInputs ==
    {ShapeInt(2), ShapeSeq(<<2>>), ShapeSeq(<<1, 2>>), ShapeSeq(<<0>>), ShapeInt(-1)}

NdArrays ==
    {[dtype |-> d, shape |-> sh, nbytes |-> Product(sh) * ItemSize(d),
      data |-> [i \in 1..Product(sh) |-> Elem(<<7>>)]] :
        d \in DtypeNames \cup {"complex128"}, sh \in {<<2>>, <<1, 2>>}}

TypedWriteVals == {0}

\* The fill values of the runs that go on to use the plex.
LifeVals == {PyBool(TRUE), PyInt(Small(1)), PyInt(Small(300)), PyFloat(5), PyStr}

\* Bounds of the make_shape inputs.
MaxDim == 2
MaxRank == 3

NotParsed == [ok |-> FALSE, shape |-> <<0>>]

RECURSIVE SeqsUpTo(_, _)
SeqsUpTo(S, n) ==
    IF n = 0 THEN {<<>>}
    ELSE SeqsUpTo(S, n - 1) \cup
         {Append(q, x) : q \in {r \in SeqsUpTo(S, n - 1) : Len(r) = n - 1}, x \in S}

ShapeInputs ==
    {ShapeInt(n) : n \in (-1)..MaxDim}
    \cup {ShapeSeq(q) : q \in SeqsUpTo((-1)..MaxDim, MaxRank)}

\* A caller passes shape_in to make_shape.
ParseShape ==
    /\ shape_out = NotParsed
    /\ shape_out' = make_shape(shape_in)
    /\ UNCHANGED <<shape_in, meshVars, plexVars, cellVars>>

\* A caller starts over with another shape object.
NextShape(obj) ==
    /\ shape_out # NotParsed
    /\ shape_in' = obj
    /\ shape_out' = NotParsed
    /\ UNCHANGED <<meshVars, plexVars, cellVars>>

----------------------------------------------------------------------------
\* CellType.
MaxCellArg == 2

\* The type id codes of CellTypeBase.
NONCELLTYPE == 0
POINT == 1
LINE == 2
QUADRILATERAL == 3
TRIANGLE == 4
HEXAHEDRON == 5
TETRAHEDRON == 6
PRISM == 7
PYRAMID == 8

NoCell == [built |-> FALSE]
NoCellArgs == [class |-> "", ND |-> 0, id |-> 0, nnode |-> 0, nedge |-> 0, nsurface |-> 0]
NoCellRet == [fn |-> "", val |-> 0]

\* CellType<ND>::CellType(id_in, nnode_in, nedge_in, nsurface_in): four
\* uint8_t members.
CellType(ND, id_in, nnode_in, nedge_in, nsurface_in) ==
    [built |-> TRUE, NDIM |-> ND,
     m_id |-> id_in % 256, m_nnode |-> nnode_in % 256,
     m_nedge |-> nedge_in % 256, m_nsurface |-> nsurface_in % 256]

\* The MM_DECL_CELL_TYPE lines: TYPE, NDIM, NNODE, NEDGE, NSURFACE by NAME.
CellTypeNames ==
    {"Point", "Line", "Quadrilateral", "Triangle", "Hexahedron", "Tetrahedron",
     "Prism", "Pyramid"}

MM_DECL_CELL_TYPE(NAME) ==
    CASE NAME = "Point" -> CellType(0, POINT, 1, 0, 0)
      [] NAME = "Line" -> CellType(1, LINE, 2, 0, 0)
      [] NAME = "Quadrilateral" -> CellType(2, QUADRILATERAL, 4, 4, 0)
      [] NAME = "Triangle" -> CellType(2, TRIANGLE, 3, 3, 0)
      [] NAME = "Hexahedron" -> CellType(3, HEXAHEDRON, 8, 12, 6)
      [] NAME = "Tetrahedron" -> CellType(3, TETRAHEDRON, 4, 6, 4)
      [] NAME = "Prism" -> CellType(3, PRISM, 6, 9, 5)
      [] NAME = "Pyramid" -> CellType(3, PYRAMID, 5, 8, 5)

\* The member functions of CellType<ND>.
cell_id(c) == c.m_id
cell_ndim(c) == c.NDIM
cell_nnode(c) == c.m_nnode
cell_nedge(c) == c.m_nedge
cell_nsurface(c) == c.m_nsurface

\* Faulty variant: the two counts are swapped between the dimensions.
cell_nface_swapped(c) ==
    IF 2 = c.NDIM THEN cell_nsurface(c)
    ELSE IF 3 = c.NDIM THEN cell_nedge(c)
    ELSE 0

\* CellType<ND>::nface().
cell_nface(c) ==
    IF 2 = c.NDIM THEN cell_nedge(c)
    ELSE IF 3 = c.NDIM THEN cell_nsurface(c)
    ELSE 0

CellFns == {"id", "ndim", "nnode", "nedge", "nsurface", "nface"}

\* NAME##CellType(): one of the eight concrete cell types is constructed.
DeclCellType(NAME) ==
    /\ ~cell.built
    /\ cell' = MM_DECL_CELL_TYPE(NAME)
    /\ cellArgs' = [class |-> NAME, ND |-> cell'.NDIM, id |-> cell'.m_id,
                    nnode |-> cell'.m_nnode, nedge |-> cell'.m_nedge,
                    nsurface |-> cell'.m_nsurface]
    /\ UNCHANGED <<cellRet, meshVars, plexVars, shapeVars>>

\* A caller constructs CellType<ND> itself.
NewCellType(ND, id_in, nnode_in, nedge_in, nsurface_in) ==
    /\ ~cell.built
    /\ cell' = CellType(ND, id_in, nnode_in, nedge_in, nsurface_in)
    /\ cellArgs' = [class |-> "CellType", ND |-> ND, id |-> id_in, nnode |-> nnode_in,
                    nedge |-> nedge_in, nsurface |-> nsurface_in]
    /\ UNCHANGED <<cellRet, meshVars, plexVars, shapeVars>>

\* A caller calls one of the member functions that return a number.
CallCell(fn) ==
    /\ cell.built
    /\ cellRet' =
          [fn |-> fn,
           val |-> CASE fn = "id" -> cell_id(cell)
                     [] fn = "ndim" -> cell_ndim(cell)
                     [] fn = "nnode" -> cell_nnode(cell)
                     [] fn = "nedge" -> cell_nedge(cell)
                     [] fn = "nsurface" -> cell_nsurface(cell)
                     [] fn = "nface" -> cell_nface(cell)]
    /\ UNCHANGED <<cell, cellArgs, meshVars, plexVars, shapeVars>>

----------------------------------------------------------------------------
\* Specifications.
MeshIdle ==
    /\ mesh = NoMesh
    /\ meshArgs = [NDIM |-> 0, nnode |-> 0, nface |-> 0, ncell |-> 0, nbound |-> 0]
    /\ meshWrites = 0

PlexIdle ==
    /\ plex = NoPlex
    /\ ctor = NoCtor
    /\ err = "none"
    /\ fills = 0
    /\ buffers = <<>>
    /\ typedArrs = <<>>
    /\ handles = 0
    /\ released = 0

ShapeIdle ==
    /\ shape_in = ShapeInt(0)
    /\ shape_out = NotParsed

CellIdle ==
    /\ cell = NoCell
    /\ cellArgs = NoCellArgs
    /\ cellRet = NoCellRet

MeshInit == MeshIdle /\ PlexIdle /\ ShapeIdle /\ CellIdle

MeshNext ==
    \/ \E NDIM \in {2, 3}, a \in 0..MaxNode, b \in 0..MaxFace,
          c \in 0..MaxCell, d \in 0..MaxBound : construct(NDIM, a, b, c, d)
    \/ \E NAME \in TableNames, v \in MeshVals :
          \E i \in MeshWriteInputs(NAME) : WriteTable(NAME, i, v)

SpecMesh == MeshInit /\ [][MeshNext]_vars

PlexInit == MeshIdle /\ PlexIdle /\ ShapeIdle /\ CellIdle

PlexNext ==
    \/ \E sh \in PlexShapeInputs, d \in DtypeNames \cup {"complex128"} :
          init_array_plex(sh, d)
    \/ \E sh \in PlexShapeInputs, v \in LifeVals, d \in DtypeNames \cup {"complex128"} :
          init_array_plex_with_value(sh, v, d)
    \/ \E arr \in NdArrays : init_from_ndarray(arr)
    \/ typed
    \/ \E i \in 1..MaxTyped, n \in TypedWriteVals :
          \E idx \in TypedIndices(i) : WriteTyped(i, idx, n)
    \/ \E i \in 1..MaxTyped, n \in TypedWriteVals : FillTyped(i, n)
    \/ \E i \in 1..MaxTyped : DestroyTyped(i)
    \/ CopyHandle
    \/ DestroyHandle
    \/ DestroyPlex

SpecPlex == PlexInit /\ [][PlexNext]_vars

\* The value constructor alone, over every fill value.
FillNext ==
    \E sh \in PlexShapeInputs, v \in PyVals, d \in DtypeNames \cup {"complex128"} :
        init_array_plex_with_value(sh, v, d)

SpecFill == PlexInit /\ [][FillNext]_vars

ShapeInit ==
    /\ MeshIdle /\ PlexIdle /\ CellIdle
    /\ shape_in \in ShapeInputs
    /\ shape_out = NotParsed

ShapeNext ==
    \/ ParseShape
    \/ \E obj \in ShapeInputs : NextShape(obj)

SpecShape == ShapeInit /\ [][ShapeNext]_vars

----------------------------------------------------------------------------
\* Properties of the mesh tables.

Table(NAME) == MM_DECL_StaticMesh_ARRAY(mesh, NAME)

\* The interior count each table is documented to be sized by.
CountOf(NAME) ==
    CASE NAME = "ndcrd" -> meshArgs.nnode
      [] NAME \in {"fccnd", "fcnml", "fcara", "fctpn", "fcnds", "fccls"} -> meshArgs.nface
      [] OTHER -> meshArgs.ncell

\* C1: in every constructed mesh the leading dimension of every table equals
\* its interior count: nnode for ndcrd, nface for the fc* tables (fctpn
\* included), ncell for the cl* tables.
C1_LeadingDims ==
    mesh.constructed => \A NAME \in TableNames : Table(NAME).shape[1] = CountOf(NAME)

\* C2: the trailing dimensions depend on NDIM and the global maxima only:
\* ndcrd, fccnd, fcnml, clcnd are [*, NDIM]; fcnds [*, 4], fccls [*, 2],
\* clnds [*, 8], clfcs [*, 6]; fcara, clvol, fctpn, cltpn, clgrp have rank 1;
\* and the 2-D mesh of counts (4, 5, 2, 3) has ndcrd [4,2], fcnds [5,4],
\* clfcs [2,6], cltpn [2].
C2_TrailingDims ==
    mesh.constructed =>
        /\ meshArgs.NDIM \in {2, 3}
        /\ \A NAME \in {"ndcrd", "fccnd", "fcnml", "clcnd"} :
              /\ Len(Table(NAME).shape) = 2
              /\ Table(NAME).shape[2] = meshArgs.NDIM
        /\ \A NAME \in {"fcnds", "fccls", "clnds", "clfcs"} :
              /\ Len(Table(NAME).shape) = 2
              /\ Table(NAME).shape[2] =
                    (CASE NAME = "fcnds" -> 4 [] NAME = "fccls" -> 2
                       [] NAME = "clnds" -> 8 [] NAME = "clfcs" -> 6)
        /\ \A NAME \in {"fcara", "clvol", "fctpn", "cltpn", "clgrp"} :
              Len(Table(NAME).shape) = 1
        /\ (meshArgs = [NDIM |-> 2, nnode |-> 4, nface |-> 5, ncell |-> 2, nbound |-> 3] =>
              /\ Table("ndcrd").shape = <<4, 2>>
              /\ Table("fcnds").shape = <<5, 4>>
              /\ Table("clfcs").shape = <<2, 6>>
              /\ Table("cltpn").shape = <<2>>)

\* Witness of C2: the 2-D mesh of counts (4, 5, 2, 3) has been constructed.
C2_Witness ==
    /\ mesh.constructed
    /\ meshArgs = [NDIM |-> 2, nnode |-> 4, nface |-> 5, ncell |-> 2, nbound |-> 3]

\* C3: after construction and any table writes, the four interior counts
\* read the constructor arguments and the three ghost counts read zero.
C3_CountsConstant ==
    mesh.constructed =>
        /\ nnode(mesh) = meshArgs.nnode
        /\ nface(mesh) = meshArgs.nface
        /\ ncell(mesh) = meshArgs.ncell
        /\ nbound(mesh) = meshArgs.nbound
        /\ ngstnode(mesh) = 0
        /\ ngstface(mesh) = 0
        /\ ngstcell(mesh) = 0

\* Witness of C3: a 3-D mesh with four distinct counts whose cell-to-node
\* table has been written through its accessor.
C3_Witness ==
    /\ mesh.constructed
    /\ meshArgs = [NDIM |-> 3, nnode |-> 3, nface |-> 4, ncell |-> 2, nbound |-> 1]
    /\ meshWrites > 0
    /\ Table("clnds").body # <<>>

----------------------------------------------------------------------------
\* Properties of the value constructor.

\* The family of a dtype, by its name.
FamilyOf(name) ==
    CASE name = "bool" -> "bool"
      [] name \in {"float32", "float64"} -> "float"
      [] OTHER -> "int"

ValueCall == ctor.kind = "value" /\ ctor.datatype \in DtypeNames /\ ctor.shape_in # ShapeInt(-1)

PlexElems == buffers[1].data

\* C4: an int value for Bool or a float dtype, and a float value for Bool or
\* an integer dtype, end the constructor with the data type mismatch error
\* before any fill, and no array comes back.
C4_KindMismatchRejected ==
    (/\ ValueCall
     /\ \/ ctor.value.kind = "int" /\ FamilyOf(ctor.datatype) \in {"bool", "float"}
        \/ ctor.value.kind = "float" /\ FamilyOf(ctor.datatype) \in {"bool", "int"})
    => /\ err = "Data type mismatch"
       /\ fills = 0
       /\ plex = NoPlex
       /\ buffers = <<>>

\* Witness of C4: the int 1 was given for float64 and was rejected.
C4_Witness ==
    /\ ctor.kind = "value"
    /\ ctor.value = PyInt(Small(1))
    /\ ctor.datatype = "float64"
    /\ ctor.shape_in = ShapeSeq(<<1, 2>>)
    /\ err = "Data type mismatch"

\* C5: a bool value for any dtype other than Bool ends the constructor with
\* the data type mismatch error, and no array comes back.
C5_BoolOnlyForBool ==
    (ValueCall /\ ctor.value.kind = "bool" /\ ctor.datatype # "bool")
    => /\ err = "Data type mismatch"
       /\ plex = NoPlex

\* The values of IntVals in ascending order.
IntValsSorted ==
    <<Compl(Pow2(63)), Compl(Pow2m1(63)), Compl(Pow2(31)), Compl(Pow2m1(31)),
      Compl(Pow2(15)), Compl(Pow2m1(15)), Compl(Small(299)), Compl(Small(128)),
      Compl(Small(127)), Compl(Small(0)), Small(0), Small(1), Small(44),
      Small(127), Small(128), Small(255), Small(256), Small(300),
      Pow2m1(15), Pow2(15), Pow2m1(16), Pow2(16), Pow2m1(31), Pow2(31),
      Pow2m1(32), Pow2(32), Pow2m1(63), Pow2(63), Pow2m1(64), Pow2(64)>>

Rank(v) == CHOOSE i \in DOMAIN IntValsSorted : IntValsSorted[i] = v
Between(v, lo, hi) == Rank(lo) <= Rank(v) /\ Rank(v) <= Rank(hi)

\* The range of the C type each integer case casts the value to.
InCastRange(name, v) ==
    CASE name = "int8" -> Between(v, Compl(Small(127)), Small(127))
      [] name = "int16" -> Between(v, Compl(Pow2m1(15)), Pow2m1(15))
      [] name \in {"int32", "uint32"} -> Between(v, Compl(Pow2m1(31)), Pow2m1(31))
      [] name \in {"int64", "uint64"} -> Between(v, Compl(Pow2m1(63)), Pow2m1(63))
      [] name = "uint8" -> Between(v, Small(0), Small(255))
      [] name = "uint16" -> Between(v, Small(0), Pow2m1(16))

\* The integer a value of at most 31 bits stands for.
IntOf(v) ==
    IF Bit(v, 31) = 0 THEN v[1] + LimbBase * v[2]
    ELSE -((LimbMax - v[1]) + LimbBase * (LimbMax - v[2])) - 1

\* Every element of the plex holds the value narrowed to the width of the dtype.
AllNarrowed(name, v) ==
    \A i \in DOMAIN PlexElems :
        /\ PlexElems[i].k = "set"
        /\ Len(PlexElems[i].b) = (IF ItemSize(name) = 1 THEN 1 ELSE ItemSize(name) \div 2)
        /\ ItemSize(name) = 1 => PlexElems[i].b[1] = v[1] % 256
        /\ ItemSize(name) > 1 => \A j \in DOMAIN PlexElems[i].b : PlexElems[i].b[j] = v[j]
        /\ (ItemSize(name) <= 2 /\ Between(v, Compl(Pow2(15)), Pow2(16))) =>
              PlexElems[i].b[1] = IntOf(v) % 2^(8 * ItemSize(name))

IntCall == ValueCall /\ ctor.value.kind = "int" /\ FamilyOf(ctor.datatype) = "int"

InDtypeRange(name, v) ==
    CASE name = "int8" -> Between(v, Compl(Small(127)), Small(127))
      [] name = "int16" -> Between(v, Compl(Pow2m1(15)), Pow2m1(15))
      [] name = "int32" -> Between(v, Compl(Pow2m1(31)), Pow2m1(31))
      [] name = "int64" -> Between(v, Compl(Pow2m1(63)), Pow2m1(63))
      [] name = "uint8" -> Between(v, Small(0), Small(255))
      [] name = "uint16" -> Between(v, Small(0), Pow2m1(16))
      [] name = "uint32" -> Between(v, Small(0), Pow2m1(32))
      [] name = "uint64" -> Between(v, Small(0), Pow2m1(64))

\* C11: an int value inside the representable range of an integer dtype is
\* accepted and every element equals it, the upper halves of the uint32 and
\* uint64 ranges included; and a negative value given for an unsigned dtype
\* yields no array.
C11_InRangeExact ==
    IntCall =>
        /\ InDtypeRange(ctor.datatype, ctor.value.v) =>
              /\ err = "none"
              /\ plex.state = "live"
              /\ AllNarrowed(ctor.datatype, ctor.value.v)
        /\ (/\ ctor.datatype \in {"uint8", "uint16", "uint32", "uint64"}
            /\ Rank(ctor.value.v) < Rank(Small(0))) =>
              /\ err # "none"
              /\ plex = NoPlex

----------------------------------------------------------------------------
\* Properties of the typed property and of the buffer's life.

TagOf ==
    [bool |-> "Bool", int8 |-> "Int8", int16 |-> "Int16", int32 |-> "Int32",
     int64 |-> "Int64", uint8 |-> "Uint8", uint16 |-> "Uint16", uint32 |-> "Uint32",
     uint64 |-> "Uint64", float32 |-> "Float32", float64 |-> "Float64"]

ShapeOf(obj) == IF obj.kind = "int" THEN <<obj.n>> ELSE obj.items

\* C7: once a (shape, dtype) or (shape, value, dtype) constructor has
\* returned, data_type() is the tag of the dtype for as long as the plex
\* lives, every array typed has returned has the element type of that tag
\* and the constructor's shape, and typed never raises Unsupported datatype.
C7_TagAndTyped ==
    (ctor.kind \in {"dtype", "value"} /\ plex.state # "none") =>
        /\ ctor.datatype \in DtypeNames
        /\ plex.state = "live" =>
              /\ data_type(plex) = TagOf[ctor.datatype]
              /\ plex.instance.etype = TagOf[ctor.datatype]
              /\ plex.instance.shape = ShapeOf(ctor.shape_in)
        /\ \A i \in DOMAIN typedArrs :
              /\ typedArrs[i].etype = TagOf[ctor.datatype]
              /\ typedArrs[i].shape = ShapeOf(ctor.shape_in)
        /\ err # "Unsupported datatype"

\* Witness of C7: a uint32 plex of shape [1,2] built with a value, whose
\* typed array has been returned and then written.
C7_Witness ==
    /\ ctor.kind = "value"
    /\ ctor.datatype = "uint32"
    /\ ctor.shape_in = ShapeSeq(<<1, 2>>)
    /\ plex.state = "live"
    /\ Len(typedArrs) = 1
    /\ typedArrs[1].etype = "Uint32"
    /\ buffers[typedArrs[1].buf].data # PlexElems

TData(i) == buffers[typedArrs[i].buf].data

\* C8: no step changes a living plex or its elements; a step that changes
\* the elements of one returned array changes those of no other; and typed
\* hands out a copy of the plex's elements and leaves the earlier arrays
\* as they are.
C8_TypedDecoupled ==
    [][/\ (plex.state = "live" /\ plex'.state = "live") =>
              (plex' = plex /\ PlexElems' = PlexElems)
       /\ \A i \in DOMAIN typedArrs :
              TData(i)' # TData(i) =>
                  \A j \in DOMAIN typedArrs \ {i} : TData(j)' = TData(j)
       /\ Len(typedArrs') > Len(typedArrs) =>
              /\ \A j \in DOMAIN typedArrs : TData(j)' = TData(j)
              /\ buffers'[typedArrs'[Len(typedArrs')].buf].data = PlexElems
              /\ typedArrs'[Len(typedArrs')].buf # plex.instance.buf
      ]_vars

\* Witness of C8: two arrays returned by a living plex, the first one
\* written so that it differs from both the plex and the second.
C8_Witness ==
    /\ plex.state = "live"
    /\ Len(typedArrs) = 2
    /\ typedArrs[1].alive /\ typedArrs[2].alive
    /\ TData(1) # PlexElems
    /\ TData(2) = PlexElems

----------------------------------------------------------------------------
\* Properties of make_shape.

\* C9: a count n >= 0 parses to the rank-1 shape [n], the same as the
\* one-element sequence [n]; a sequence of dimension sizes parses to itself.
C9_ScalarSeqAgree ==
    shape_out # NotParsed =>
        /\ (shape_in.kind = "int" /\ shape_in.n >= 0) =>
              /\ shape_out = [ok |-> TRUE, shape |-> <<shape_in.n>>]
              /\ make_shape(ShapeSeq(<<shape_in.n>>)) = shape_out
        /\ (shape_in.kind = "seq" /\ \A i \in DOMAIN shape_in.items : shape_in.items[i] >= 0) =>
              shape_out = [ok |-> TRUE, shape |-> shape_in.items]

\* Witness of C9: the sequence [2, 0, 1] has been parsed.
C9_Witness ==
    /\ shape_in = ShapeSeq(<<2, 0, 1>>)
    /\ shape_out.ok

----------------------------------------------------------------------------
\* Properties of the wrapped ndarray.

LiveHolders == (IF plex.state = "live" THEN 1 ELSE 0) + handles

\* C10: a plex built over an ndarray takes shape, byte length, dtype and
\* memory from it; the remover has not run while the plex or another holder
\* of its buffer lives, never runs twice, and has run once when none lives.
C10_ReleaseOnce ==
    (ctor.kind = "wrap" /\ plex.state # "none") =>
        /\ released <= 1
        /\ LiveHolders > 0 => released = 0
        /\ LiveHolders = 0 => released = 1
        /\ buffers[1].mem = "ndarray"
        /\ buffers[1].nbytes = Product(ctor.shape_in.items) * ItemSize(ctor.datatype)
        /\ plex.state = "live" =>
              /\ plex.instance.shape = ctor.shape_in.items
              /\ data_type(plex) = TagOf[ctor.datatype]
              /\ plex.instance.buf = 1

\* Witness of C10: the plex over an int32 ndarray and every other holder are
\* gone, a typed copy is still alive, and the remover has run once.
C10_Witness ==
    /\ ctor.kind = "wrap"
    /\ ctor.datatype = "int32"
    /\ plex.state = "destroyed"
    /\ handles = 0
    /\ Len(typedArrs) > 0
    /\ typedArrs[1].alive
    /\ released = 1

----------------------------------------------------------------------------
\* Properties of the cell types.

CellInit == MeshIdle /\ PlexIdle /\ ShapeIdle /\ CellIdle

CellNext ==
    \/ \E NAME \in CellTypeNames : DeclCellType(NAME)
    \/ \E ND \in 0..3, i \in 0..PYRAMID, a \in 0..MaxCellArg,
          b \in 0..MaxCellArg, c \in 0..MaxCellArg : NewCellType(ND, i, a, b, c)
    \/ \E fn \in CellFns : CallCell(fn)

SpecCell == CellInit /\ [][CellNext]_vars

\* The shapes that bound a cell: lines in a 2-D mesh, quadrilaterals and
\* triangles in a 3-D mesh.
FaceShapes == {"Line", "Quadrilateral", "Triangle"}

\* C12: each of the eight concrete cell types has at most 8 nodes and at most
\* 6 faces, nface() being the edge count in 2-D, the surface count in 3-D and
\* 0 otherwise; and each shape that can be a face has at most 4 nodes.
C12_CatalogFitsRows ==
    cell.built =>
        /\ cell_nface(cell) =
              (CASE cellArgs.ND = 2 -> cellArgs.nedge
                 [] cellArgs.ND = 3 -> cellArgs.nsurface
                 [] OTHER -> 0)
        /\ cellRet.fn = "nface" => cellRet.val = cell_nface(cell)
        /\ cellArgs.class \in CellTypeNames =>
              /\ cell_nnode(cell) <= 8
              /\ cell_nface(cell) <= 6
              /\ cellRet.fn = "nnode" => cellRet.val <= CLNND_MAX
              /\ cellRet.fn = "nface" => cellRet.val <= CLNFC_MAX
        /\ cellArgs.class \in FaceShapes =>
              /\ cell_nnode(cell) <= 4
              /\ cellRet.fn = "nnode" => cellRet.val <= FCNND_MAX

\* Witness of C12: nface() of the hexahedron has returned 6.
C12_Witness ==
    /\ cell.built
    /\ cellArgs.class = "Hexahedron"
    /\ cell_nedge(cell) = 12
    /\ cellRet = [fn |-> "nface", val |-> 6]

====
